---- MODULE Spec2Model ----
(***************************************************************************)
(* Model of scripts/https-server.py: generate_self_signed_cert(), the      *)
(* certificate provisioner.  The state is the filesystem under CERT_DIR,   *)
(* the position of each running instance of the script inside the          *)
(* function, the external openssl process it waits on, and a record of     *)
(* every finished run.                                                     *)
(***************************************************************************)
EXTENDS Integers, Sequences, FiniteSets, TLC

\* Total number of runs of the script that are started in a behaviour.
MaxRuns == 3

\* The script instances that can be alive at once: the two of the re-entrant
\* invocation scenario.
Inst == {1, 2}

VARIABLES
    dir,          \* CERT_DIR: "absent", "dir", or "file" (a non-directory at the path)
    canCreate,    \* whether the OS lets the script create CERT_DIR
    cert,         \* CERT_FILE: [exists, writer]; writer 0 = not written by any invocation
    key,          \* KEY_FILE, same shape
    fs0,          \* the filesystem as it was before the first run
    pc,           \* per instance: position in generate_self_signed_cert()
    runs,         \* runs started so far
    invocations,  \* subprocess.run calls made so far, all instances
    toolId,       \* per instance: id of the invocation of the current run (0 = none)
    runInv,       \* per instance: subprocess.run calls of the current run
    runWrites,    \* per instance: filesystem writes of the current run (mkdir, tool output)
    out,          \* per instance: console lines of the current run
    tool,         \* per instance: "none", "notfound", "running", "zero", "nonzero"
    err,          \* per instance: exception propagating out of the current run
    result,       \* per instance: outcome of the last finished run
    start,        \* per instance: filesystem seen when the current run began
    log           \* records of the finished runs, in order of completion

vars == <<dir, canCreate, cert, key, fs0, pc, runs, invocations, toolId, runInv,
          runWrites, out, tool, err, result, start, log>>

NoFile == [exists |-> FALSE, writer |-> 0]
PreFile == [exists |-> TRUE, writer |-> 0]
Written(id) == [exists |-> TRUE, writer |-> id]

ToolPcs == {"tool_key", "tool_cert", "tool_exit"}

\* Faulty variant: `or` in place of `and` in the existence check.
BothExistBad == cert.exists \/ key.exists
\* CERT_FILE.exists() and KEY_FILE.exists()
BothExist == cert.exists /\ key.exists

Snapshot == [dir |-> dir, cert |-> cert.exists, key |-> key.exists]

Init ==
    /\ dir \in {"absent", "dir", "file"}
    /\ canCreate \in BOOLEAN
    /\ cert \in IF dir = "dir" THEN {NoFile, PreFile} ELSE {NoFile}
    /\ key \in IF dir = "dir" THEN {NoFile, PreFile} ELSE {NoFile}
    /\ fs0 = Snapshot
    /\ pc = [i \in Inst |-> "idle"]
    /\ runs = 0
    /\ invocations = 0
    /\ toolId = [i \in Inst |-> 0]
    /\ runInv = [i \in Inst |-> 0]
    /\ runWrites = [i \in Inst |-> 0]
    /\ out = [i \in Inst |-> <<>>]
    /\ tool = [i \in Inst |-> "none"]
    /\ err = [i \in Inst |-> "none"]
    /\ result = [i \in Inst |-> "none"]
    /\ start = [i \in Inst |-> Snapshot]
    /\ log = <<>>

\* The record a run leaves behind when the function returns or raises.
RunRecord(i, res, lines) ==
    [start |-> start[i], res |-> res, err |-> err[i], tool |-> tool[i],
     inv |-> runInv[i], writes |-> runWrites[i], out |-> lines, end |-> Snapshot]

\* The process of instance i ends with outcome res.
Finish(i, res, lines) ==
    /\ pc' = [pc EXCEPT ![i] = "idle"]
    /\ result' = [result EXCEPT ![i] = res]
    /\ out' = [out EXCEPT ![i] = lines]
    /\ log' = Append(log, RunRecord(i, res, lines))

\* The script is launched: `if __name__ == "__main__": generate_self_signed_cert()`.
Launch(i) ==
    /\ pc[i] = "idle"
    /\ runs < MaxRuns
    /\ runs' = runs + 1
    /\ pc' = [pc EXCEPT ![i] = "mkdir"]
    /\ start' = [start EXCEPT ![i] = Snapshot]
    /\ toolId' = [toolId EXCEPT ![i] = 0]
    /\ runInv' = [runInv EXCEPT ![i] = 0]
    /\ runWrites' = [runWrites EXCEPT ![i] = 0]
    /\ out' = [out EXCEPT ![i] = <<>>]
    /\ tool' = [tool EXCEPT ![i] = "none"]
    /\ err' = [err EXCEPT ![i] = "none"]
    /\ UNCHANGED <<dir, canCreate, cert, key, fs0, invocations, result, log>>

\* One manually invoked run at a time.
Start(i) ==
    /\ \A j \in Inst : pc[j] = "idle"
    /\ Launch(i)

\* A second instance launched while another is still running.
StartConc(i) ==
    /\ \E j \in Inst : pc[j] # "idle"
    /\ Launch(i)

\* Faulty variant: a failing mkdir is ignored and the run goes on.
MkdirSwallow(i) ==
    /\ pc[i] = "mkdir"
    /\ dir' = IF dir = "absent" /\ canCreate THEN "dir" ELSE dir
    /\ runWrites' = [runWrites EXCEPT ![i] = @ + (IF dir' # dir THEN 1 ELSE 0)]
    /\ pc' = [pc EXCEPT ![i] = "check"]
    /\ UNCHANGED <<canCreate, cert, key, fs0, runs, invocations, toolId, runInv,
                   out, tool, err, result, start, log>>
\* Faulty variant: exist_ok=True left out, so an existing CERT_DIR raises.
MkdirNoExistOk(i) ==
    /\ pc[i] = "mkdir"
    /\ \/ /\ dir = "absent"
          /\ canCreate
          /\ dir' = "dir"
          /\ runWrites' = [runWrites EXCEPT ![i] = @ + 1]
          /\ pc' = [pc EXCEPT ![i] = "check"]
          /\ UNCHANGED err
       \/ /\ \/ dir = "absent" /\ ~canCreate
             \/ dir \in {"dir", "file"}
          /\ err' = [err EXCEPT ![i] = "DirectoryCreationFailed"]
          /\ pc' = [pc EXCEPT ![i] = "raise"]
          /\ UNCHANGED <<dir, runWrites>>
    /\ UNCHANGED <<canCreate, cert, key, fs0, runs, invocations, toolId, runInv,
                   out, tool, result, start, log>>
\* CERT_DIR.mkdir(parents=True, exist_ok=True): nothing to do when the
\* directory is there; created when absent and permitted; otherwise the
\* OSError (PermissionError, or FileExistsError for a non-directory) is raised.
Mkdir(i) ==
    /\ pc[i] = "mkdir"
    /\ \/ /\ dir = "dir"
          /\ pc' = [pc EXCEPT ![i] = "check"]
          /\ UNCHANGED <<dir, runWrites, err>>
       \/ /\ dir = "absent"
          /\ canCreate
          /\ dir' = "dir"
          /\ runWrites' = [runWrites EXCEPT ![i] = @ + 1]
          /\ pc' = [pc EXCEPT ![i] = "check"]
          /\ UNCHANGED err
       \/ /\ \/ dir = "absent" /\ ~canCreate
             \/ dir = "file"
          /\ err' = [err EXCEPT ![i] = "DirectoryCreationFailed"]
          /\ pc' = [pc EXCEPT ![i] = "raise"]
          /\ UNCHANGED <<dir, runWrites>>
    /\ UNCHANGED <<canCreate, cert, key, fs0, runs, invocations, toolId, runInv,
                   out, tool, result, start, log>>

\* if CERT_FILE.exists() and KEY_FILE.exists(): print(...); return
\* otherwise print("Generating self-signed certificate...")
CheckWith(i, present) ==
    /\ pc[i] = "check"
    /\ IF present
       THEN /\ Finish(i, "ok", Append(out[i], "exist"))
       ELSE /\ pc' = [pc EXCEPT ![i] = "run"]
            /\ out' = [out EXCEPT ![i] = Append(@, "generating")]
            /\ UNCHANGED <<result, log>>
    /\ UNCHANGED <<dir, canCreate, cert, key, fs0, runs, invocations, toolId, runInv,
                   runWrites, tool, err, start>>
\* Faulty variant: the skip is taken when either file exists.
CheckEither(i) == CheckWith(i, BothExistBad)
\* Faulty variant: the condition of the skip is negated.
CheckInverted(i) == CheckWith(i, ~BothExist)
Check(i) == CheckWith(i, BothExist)

\* Faulty variant: the files are looked at again before spawning, and the
\* spawn is skipped when both are there by then.
RunToolGuarded(i) ==
    /\ pc[i] = "run"
    /\ IF BothExist
       THEN /\ pc' = [pc EXCEPT ![i] = "print"]
            /\ tool' = [tool EXCEPT ![i] = "zero"]
            /\ UNCHANGED <<invocations, runInv, toolId, err>>
       ELSE /\ invocations' = invocations + 1
            /\ runInv' = [runInv EXCEPT ![i] = @ + 1]
            /\ toolId' = [toolId EXCEPT ![i] = invocations + 1]
            /\ tool' = [tool EXCEPT ![i] = "running"]
            /\ pc' = [pc EXCEPT ![i] = "tool_key"]
            /\ UNCHANGED err
    /\ UNCHANGED <<dir, canCreate, cert, key, fs0, runs, runWrites, out, result,
                   start, log>>
\* subprocess.run(["openssl", ...], check=True): the child is spawned, or the
\* executable is not found and FileNotFoundError is raised.
RunTool(i) ==
    /\ pc[i] = "run"
    /\ invocations' = invocations + 1
    /\ runInv' = [runInv EXCEPT ![i] = @ + 1]
    /\ toolId' = [toolId EXCEPT ![i] = invocations + 1]
    /\ \/ /\ tool' = [tool EXCEPT ![i] = "running"]
          /\ pc' = [pc EXCEPT ![i] = "tool_key"]
          /\ UNCHANGED err
       \/ /\ tool' = [tool EXCEPT ![i] = "notfound"]
          /\ err' = [err EXCEPT ![i] = "ExternalToolNotFound"]
          /\ pc' = [pc EXCEPT ![i] = "raise"]
    /\ UNCHANGED <<dir, canCreate, cert, key, fs0, runs, runWrites, out, result,
                   start, log>>

\* openssl req -newkey ... -keyout KEY_FILE: the child writes the private key.
ToolWriteKey(i) ==
    /\ pc[i] = "tool_key"
    /\ key' = Written(toolId[i])
    /\ runWrites' = [runWrites EXCEPT ![i] = @ + 1]
    /\ pc' = [pc EXCEPT ![i] = "tool_cert"]
    /\ UNCHANGED <<dir, canCreate, cert, fs0, runs, invocations, toolId, runInv,
                   out, tool, err, result, start, log>>

\* Faulty variant: the certificate output is not written (no -out).
ToolWriteCertLost(i) ==
    /\ pc[i] = "tool_cert"
    /\ pc' = [pc EXCEPT ![i] = "tool_exit"]
    /\ UNCHANGED <<dir, canCreate, cert, key, fs0, runs, invocations, toolId, runInv,
                   runWrites, out, tool, err, result, start, log>>
\* openssl req -x509 ... -out CERT_FILE: the child writes the certificate.
ToolWriteCert(i) ==
    /\ pc[i] = "tool_cert"
    /\ cert' = Written(toolId[i])
    /\ runWrites' = [runWrites EXCEPT ![i] = @ + 1]
    /\ pc' = [pc EXCEPT ![i] = "tool_exit"]
    /\ UNCHANGED <<dir, canCreate, key, fs0, runs, invocations, toolId, runInv,
                   out, tool, err, result, start, log>>

\* The child exits 0 and subprocess.run returns.
ToolExitZero(i) ==
    /\ pc[i] = "tool_exit"
    /\ tool' = [tool EXCEPT ![i] = "zero"]
    /\ pc' = [pc EXCEPT ![i] = "print"]
    /\ UNCHANGED <<dir, canCreate, cert, key, fs0, runs, invocations, toolId, runInv,
                   runWrites, out, err, result, start, log>>

\* Faulty variant: check=True left out, so a non-zero exit is ignored.
ToolExitNonZeroUnchecked(i) ==
    /\ pc[i] \in ToolPcs
    /\ tool' = [tool EXCEPT ![i] = "nonzero"]
    /\ pc' = [pc EXCEPT ![i] = "print"]
    /\ UNCHANGED <<dir, canCreate, cert, key, fs0, runs, invocations, toolId, runInv,
                   runWrites, out, err, result, start, log>>
\* The child exits non-zero at any point of its work; check=True raises
\* CalledProcessError.
ToolExitNonZero(i) ==
    /\ pc[i] \in ToolPcs
    /\ tool' = [tool EXCEPT ![i] = "nonzero"]
    /\ err' = [err EXCEPT ![i] = "CertificateGenerationFailed"]
    /\ pc' = [pc EXCEPT ![i] = "raise"]
    /\ UNCHANGED <<dir, canCreate, cert, key, fs0, runs, invocations, toolId, runInv,
                   runWrites, out, result, start, log>>

\* print("Certificate generated: ..."); print("Key generated: ..."); return
PrintGenerated(i) ==
    /\ pc[i] = "print"
    /\ Finish(i, "ok", out[i] \o <<"certgen", "keygen">>)
    /\ UNCHANGED <<dir, canCreate, cert, key, fs0, runs, invocations, toolId, runInv,
                   runWrites, tool, err, start>>

\* Faulty variant: the failure path removes both files.
RaiseCleanup(i) ==
    /\ pc[i] = "raise"
    /\ cert' = NoFile
    /\ key' = NoFile
    /\ runWrites' = [runWrites EXCEPT ![i] = @ + 1]
    /\ pc' = [pc EXCEPT ![i] = "idle"]
    /\ result' = [result EXCEPT ![i] = "fail"]
    /\ log' = Append(log, [RunRecord(i, "fail", out[i]) EXCEPT !.end =
                              [dir |-> dir, cert |-> FALSE, key |-> FALSE]])
    /\ UNCHANGED <<dir, canCreate, fs0, runs, invocations, toolId, runInv,
                   out, tool, err, start>>
\* The exception leaves generate_self_signed_cert(): the function has no
\* try/except/finally, so the process ends in failure and nothing else runs.
Raise(i) ==
    /\ pc[i] = "raise"
    /\ Finish(i, "fail", out[i])
    /\ UNCHANGED <<dir, canCreate, cert, key, fs0, runs, invocations, toolId, runInv,
                   runWrites, tool, err, start>>

Step(i) ==
    \/ Mkdir(i)
    \/ Check(i)
    \/ RunTool(i)
    \/ ToolWriteKey(i)
    \/ ToolWriteCert(i)
    \/ ToolExitZero(i)
    \/ ToolExitNonZero(i)
    \/ PrintGenerated(i)
    \/ Raise(i)

\* Runs of the provisioner alone, one after the other.
Next == \E i \in Inst : Start(i) \/ Step(i)

Spec == Init /\ [][Next]_vars

\* Instances of the script may overlap.
NextConc == \E i \in Inst : Start(i) \/ StartConc(i) \/ Step(i)

SpecConc == Init /\ [][NextConc]_vars

TypeOK ==
    /\ dir \in {"absent", "dir", "file"}
    /\ cert.exists \in BOOLEAN /\ key.exists \in BOOLEAN
    /\ cert.writer \in 0..MaxRuns /\ key.writer \in 0..MaxRuns
    /\ runs \in 0..MaxRuns
    /\ invocations \in 0..runs
    /\ Len(log) <= runs

(***************************************************************************)
(* Properties                                                              *)
(***************************************************************************)
Quiescent == \A i \in Inst : pc[i] = "idle"

Has(lines, m) == \E n \in 1..Len(lines) : lines[n] = m

StartBoth(r) == r.start.cert /\ r.start.key
EndBoth(r) == r.end.cert /\ r.end.key

RECURSIVE SumInv(_)
SumInv(s) == IF s = <<>> THEN 0 ELSE s[1].inv + SumInv(Tail(s))

RECURSIVE SumOver(_)
SumOver(S) == IF S = {} THEN 0
              ELSE LET i == CHOOSE x \in S : TRUE IN runInv[i] + SumOver(S \ {i})

EmptyAtFirst == ~fs0.cert /\ ~fs0.key /\ fs0.dir \in {"absent", "dir"}

\* C1: in sequential runs, a run that starts without the complete pair and
\* whose openssl exits 0 makes exactly one invocation, and the run after it
\* finds both files, prints only the "already exist" line, makes no
\* invocation and no filesystem write.
C1_Idempotent ==
    \A k \in 1..(Len(log) - 1) :
        (~StartBoth(log[k]) /\ log[k].tool = "zero") =>
            /\ log[k].res = "ok"
            /\ log[k].inv = 1
            /\ StartBoth(log[k + 1])
            /\ log[k + 1].res = "ok"
            /\ log[k + 1].inv = 0
            /\ log[k + 1].writes = 0
            /\ log[k + 1].out = <<"exist">>
            /\ log[k + 1].end = log[k].end

C1_Witness ==
    /\ Len(log) >= 2
    /\ ~log[1].start.cert /\ ~log[1].start.key
    /\ log[1].tool = "zero"
    /\ log[2].inv = 0
    /\ invocations = 1

\* C2: whenever a run has returned successfully, by the skip path or after
\* an openssl that exited 0, CERT_FILE and KEY_FILE both exist; this holds
\* at the return and from then on, also when instances overlap.
C2_SuccessPostcondition ==
    /\ \A i \in Inst : result[i] = "ok" => BothExist
    /\ \A k \in 1..Len(log) : log[k].res = "ok" => EndBoth(log[k])

C2_Witness ==
    /\ \E k \in 1..Len(log) : log[k].res = "ok" /\ log[k].tool = "zero"
    /\ \E k \in 1..Len(log) : log[k].res = "ok" /\ log[k].inv = 0

\* C3: a run takes the skip path exactly when both files exist at its check;
\* from every start with a file missing (none, key only, cert only) a run
\* that gets past mkdir invokes openssl.
C3_PartialStateRegeneration ==
    /\ \A k \in 1..Len(log) :
        /\ Has(log[k].out, "exist") <=> StartBoth(log[k])
        /\ Has(log[k].out, "exist") => log[k].inv = 0 /\ log[k].res = "ok"
        /\ (~StartBoth(log[k]) /\ log[k].err # "DirectoryCreationFailed") =>
               log[k].inv = 1
    /\ \A i \in Inst :
        pc[i] \in {"run", "print", "raise"} \cup ToolPcs => ~(start[i].cert /\ start[i].key)

C3_Witness ==
    \E k \in 1..Len(log) :
        /\ log[k].start.key /\ ~log[k].start.cert
        /\ log[k].inv = 1
        /\ log[k].tool = "zero"

\* C4: a run whose openssl exits non-zero ends in failure without printing
\* the "Certificate generated" / "Key generated" lines, and those lines are
\* printed only by a run whose own invocation exited 0.
C4_FailurePropagation ==
    /\ \A k \in 1..Len(log) :
        /\ log[k].tool = "nonzero" =>
              /\ log[k].res = "fail"
              /\ ~Has(log[k].out, "certgen")
              /\ ~Has(log[k].out, "keygen")
        /\ (Has(log[k].out, "certgen") \/ Has(log[k].out, "keygen")) =>
              log[k].tool = "zero" /\ log[k].inv = 1
    /\ \A i \in Inst : pc[i] = "print" => tool[i] = "zero"

C4_Witness ==
    \E k \in 1..Len(log) :
        /\ log[k].tool = "nonzero"
        /\ log[k].res = "fail"
        /\ log[k].out = <<"generating">>

\* C5: with runs of the provisioner alone, once both files exist they exist
\* forever; between runs nothing changes; and a run started with both files
\* present changes neither file nor the directory, makes no invocation, never
\* raises and returns success.
C5_PresentIsTerminal ==
    [][ /\ BothExist => BothExist'
        /\ (Quiescent /\ BothExist) => UNCHANGED <<dir, cert, key, invocations>>
        /\ \A i \in Inst :
              (pc[i] # "idle" /\ start[i].cert /\ start[i].key) =>
                  /\ UNCHANGED <<dir, cert, key, invocations>>
                  /\ runWrites'[i] = 0
                  /\ runInv'[i] = 0
                  /\ pc'[i] # "raise"
                  /\ pc'[i] = "idle" => result'[i] = "ok"
      ]_vars

C5_Witness ==
    /\ ~fs0.cert /\ ~fs0.key
    /\ \E k \in 1..Len(log) : StartBoth(log[k]) /\ log[k].res = "ok"

\* C6 as stated: between runs of the provisioner alone from an empty
\* directory, CERT_FILE exists iff KEY_FILE exists, also after a failed
\* generation attempt.
C6_PairInvariant ==
    (EmptyAtFirst /\ Quiescent) => (cert.exists <=> key.exists)

\* C6 amended: between runs of the provisioner alone from an empty directory,
\* one file exists without the other only if the last run failed in its
\* invocation and some invocation exited non-zero; a run whose openssl exited
\* 0 leaves both files.
C6_PairUnlessFailed ==
    /\ (EmptyAtFirst /\ Quiescent /\ (cert.exists # key.exists)) =>
          /\ Len(log) > 0
          /\ log[Len(log)].res = "fail"
          /\ log[Len(log)].inv = 1
          /\ \E k \in 1..Len(log) : log[k].tool = "nonzero"
    /\ \A k \in 1..Len(log) : log[k].tool = "zero" => EndBoth(log[k])

C6_Witness ==
    /\ EmptyAtFirst
    /\ Quiescent
    /\ key.exists /\ ~cert.exists
    /\ log[Len(log)].tool = "nonzero"

\* C7: mkdir is the first step of a run and succeeds when CERT_DIR is already
\* a directory; the check, the invocation and every console line happen only
\* with CERT_DIR existing; a run whose mkdir fails ends in failure with no
\* invocation, no write and no console line.
C7_DirectoryBeforeGeneration ==
    /\ \A i \in Inst :
        (pc[i] \in {"check", "run", "print"} \cup ToolPcs \/ runInv[i] > 0 \/ out[i] # <<>>)
            => dir = "dir"
    /\ \A k \in 1..Len(log) :
        /\ log[k].err = "DirectoryCreationFailed" =>
              /\ log[k].res = "fail"
              /\ log[k].inv = 0
              /\ log[k].writes = 0
              /\ log[k].out = <<>>
              /\ log[k].start.dir # "dir"
        /\ (log[k].inv > 0 \/ log[k].out # <<>>) => log[k].end.dir = "dir"

C7_Witness ==
    /\ \E k \in 1..Len(log) :
          log[k].err = "DirectoryCreationFailed" /\ log[k].start.dir = "absent"
    /\ dir = "absent"

\* C8: a run makes at most one invocation; once the invocation has failed
\* (openssl not found or non-zero exit) the only thing that happens is the
\* run ending in failure, with the files, the directory and the invocation
\* count exactly as they were when the tool stopped.
C8_NoRetryNoCleanup ==
    [][ \A i \in Inst :
          /\ runInv'[i] <= 1
          /\ pc[i] = "raise" =>
                /\ pc'[i] = "idle"
                /\ result'[i] = "fail"
                /\ UNCHANGED <<dir, cert, key, invocations>>
                /\ runWrites'[i] = runWrites[i]
      ]_vars

C8_Witness ==
    \E k \in 1..Len(log) :
        /\ log[k].tool = "nonzero"
        /\ log[k].inv = 1
        /\ log[k].end.key /\ ~log[k].end.cert
        /\ key.exists /\ ~cert.exists

\* C9: nothing but the existence check gates the invocation: every instance
\* that left the check on the generation branch makes its own invocation,
\* whatever another instance has invoked or written meanwhile, so the
\* invocations of overlapping runs add up.
C9_NoMutualExclusion ==
    /\ \A i \in Inst :
          pc[i] \in ToolPcs \cup {"print"} =>
              /\ runInv[i] = 1
              /\ toolId[i] \in 1..invocations
    /\ \A i, j \in Inst :
          (i # j /\ pc[i] \in ToolPcs /\ pc[j] \in ToolPcs) => toolId[i] # toolId[j]
    /\ invocations = SumInv(log) + SumOver({i \in Inst : pc[i] # "idle"})

\* Both instances saw the pair absent and both have a child running.
C9_Witness ==
    /\ ~fs0.cert /\ ~fs0.key
    /\ runs = 2
    /\ \A i \in Inst : pc[i] \in ToolPcs /\ ~start[i].cert /\ ~start[i].key
    /\ invocations = 2

\* C10: the skip depends on file existence only: when a run's openssl exits
\* non-zero after both files were written, the next run prints only the
\* "already exist" line and returns success without an invocation.
C10_SkipAfterFailedGeneration ==
    \A k \in 1..(Len(log) - 1) :
        (log[k].tool = "nonzero" /\ EndBoth(log[k])) =>
            /\ log[k].res = "fail"
            /\ log[k + 1].res = "ok"
            /\ log[k + 1].inv = 0
            /\ log[k + 1].out = <<"exist">>

\* A successful return with no successful generation ever.
C10_Witness ==
    /\ EmptyAtFirst
    /\ Len(log) >= 2
    /\ log[1].tool = "nonzero"
    /\ log[2].res = "ok"
    /\ \A k \in 1..Len(log) : log[k].tool # "zero"

====
